---- MODULE Spec2Model ----
(***************************************************************************)
(* A model of transcribe_audio.py: the pipeline main() (validate the input *)
(* path, transcribe it with the Whisper model, render the result as        *)
(* markdown, write the markdown file) and its pure helpers                 *)
(* format_timestamp and create_markdown.                                   *)
(*                                                                         *)
(* Text is a sequence of tokens.  A token is one character, except that a  *)
(* literal piece of the markdown template, the output suffix and a log     *)
(* message are each kept as one token.  A time in seconds (a Python float) *)
(* is a whole number of ticks, TicksPerSec ticks to the second, so that    *)
(* fractional seconds exist in the model.                                  *)
(***************************************************************************)
EXTENDS Integers, Sequences, FiniteSets, TLC

VARIABLES
    pc,                \* where the process is: "start", inside main(), "done"
    runs,              \* number of main() calls started in this process
    audio_file,        \* main: audio_file
    markdown_file,     \* main: markdown_file
    inputExists,       \* what os.path.exists(audio_file) answered
    transcription,     \* main: transcription (the value transcribe_audio returned)
    markdown_content,  \* main: markdown_content
    fs,                \* the output files: path -> [exists, data]
    fs0,               \* fs as it was when the current run started
    log,               \* the records this run handed to logging
    stages,            \* the external steps this run performed, in order
    engine,            \* how this run's transcribe_audio call ended
    loaded,            \* model instances whisper.load_model returned in this process
    modelInput,        \* the path handed to model.transcribe
    persisted,         \* this run wrote its whole document
    clock,             \* datetime.now(), in seconds
    written,           \* <<input, output path>> of every run that persisted
    saves,             \* input -> number of runs that persisted
    seconds,           \* format_timestamp: its argument, in ticks
    timestamp          \* format_timestamp: its result

vars == <<pc, runs, audio_file, markdown_file, inputExists, transcription,
          markdown_content, fs, fs0, log, stages, engine, loaded, modelInput,
          persisted, clock, written, saves, seconds, timestamp>>

----------------------------------------------------------------------------
(* Bounds of the model. *)

MaxRuns == 2
MaxSegs == 2
TicksPerSec == 2
MaxSeconds == 3605
MaxClock == 2

----------------------------------------------------------------------------
(* Text helpers. *)

Digits == <<"0", "1", "2", "3", "4", "5", "6", "7", "8", "9">>

DigitChar(d) == Digits[d + 1]

RECURSIVE Decimal(_)
Decimal(n) ==
    IF n < 10 THEN <<DigitChar(n)>>
    ELSE Decimal(n \div 10) \o <<DigitChar(n % 10)>>

\* f"{n:02d}": decimal digits, zero-padded on the left to a width of at least 2.
Fmt02d(n) ==
    LET d == Decimal(n)
    IN  IF Len(d) < 2 THEN <<"0">> \o d ELSE d

Whitespace == {" ", "\n", "\t"}

RECURSIVE LStrip(_)
LStrip(s) ==
    IF s # <<>> /\ Head(s) \in Whitespace THEN LStrip(Tail(s)) ELSE s

RECURSIVE RStrip(_)
RStrip(s) ==
    IF s # <<>> /\ s[Len(s)] \in Whitespace
    THEN RStrip(SubSeq(s, 1, Len(s) - 1))
    ELSE s

\* str.strip()
Strip(s) == RStrip(LStrip(s))

LastIndex(s, c) ==
    LET I == {i \in 1..Len(s) : s[i] = c}
    IN  IF I = {} THEN 0 ELSE CHOOSE i \in I : \A j \in I : j <= i

\* Path(p).name: the final component of the path.
PathName(p) == SubSeq(p, LastIndex(p, "/") + 1, Len(p))

\* Path(p).stem: the final component without its last suffix.
PathStem(p) ==
    LET n == PathName(p)
        i == LastIndex(n, ".")
    IN  IF 1 < i /\ i < Len(n) THEN SubSeq(n, 1, i - 1) ELSE n

\* datetime.now().strftime("%Y-%m-%d %H:%M:%S"); the calendar date is kept
\* as the ordinal of the day.
Strftime(now) ==
    LET day == now \div 86400
        s   == now % 86400
    IN  <<"day">> \o Decimal(day) \o <<" ">>
        \o Fmt02d(s \div 3600) \o <<":">>
        \o Fmt02d((s % 3600) \div 60) \o <<":">>
        \o Fmt02d(s % 60)

----------------------------------------------------------------------------
(* format_timestamp *)

\* the minutes not taken out of the seconds.
format_timestamp_nomod(secs) ==
    Fmt02d(secs \div (60 * TicksPerSec)) \o <<":">>
    \o Fmt02d(secs \div TicksPerSec)

format_timestamp(secs) ==
    LET minutes == secs \div (60 * TicksPerSec)                 \* int(seconds // 60)
        sec     == (secs % (60 * TicksPerSec)) \div TicksPerSec \* int(seconds % 60)
    IN  Fmt02d(minutes) \o <<":">> \o Fmt02d(sec)

----------------------------------------------------------------------------
(* create_markdown *)

Header(file_name, current_time) ==
    <<"# Audio Transcription\n\n## File Information\n- **Source File:** ">>
    \o file_name
    \o <<"\n- **Transcription Date:** ">>
    \o current_time
    \o <<"\n\n## Segments\n">>

SegmentEntry(segment) ==
    LET time == format_timestamp(segment.start)
        text == Strip(segment.text)
    IN  <<"[">> \o time \o <<"]", " ">> \o text \o <<"\n", "\n">>

\* a segment whose stripped text is empty is skipped.
RECURSIVE SegmentEntriesSkipEmpty(_)
SegmentEntriesSkipEmpty(segments) ==
    IF segments = <<>> THEN <<>>
    ELSE (IF Strip(Head(segments).text) = <<>> THEN <<>>
          ELSE SegmentEntry(Head(segments)))
         \o SegmentEntriesSkipEmpty(Tail(segments))

RECURSIVE SegmentEntries(_)
SegmentEntries(segments) ==
    IF segments = <<>> THEN <<>>
    ELSE SegmentEntry(Head(segments)) \o SegmentEntries(Tail(segments))

Body(t) ==
    IF "segments" \in t.keys THEN SegmentEntries(t.segments) ELSE <<>>

create_markdown(t, input_file, now) ==
    Header(PathName(input_file), Strftime(now)) \o Body(t)

----------------------------------------------------------------------------
(* The inputs the model draws from. *)

\* The configured input path (main: audio_file): a path in a directory, a
\* bare file name with the same stem, and a name with two suffixes.
AudioFiles ==
    { <<"T", "/", "a", ".", "m", "p", "3">>,
      <<"a", ".", "w", "a", "v">>,
      <<"b", ".", "c", ".", "m", "p", "3">> }

Suffix == <<"_transcription.md">>

Hello == <<"h", "e", "l", "l", "o">>
World == <<"w", "o", "r", "l", "d">>

\* Segment texts as the model returns them: Whisper starts a segment's text
\* with a space; silence gives whitespace only.
Texts == { Hello, World, <<" ", "h", "i">>, <<" ">>, <<>>,
           <<"\n", "a", " ", "b", "\t", " ">> }

\* Segment start times, in ticks: 0 s, a fraction above 1 s, just below and
\* at one minute, a fraction above 125 s, just below one hour, 100 minutes.
Starts == { 0, TicksPerSec + 1, 60 * TicksPerSec - 1, 60 * TicksPerSec,
            125 * TicksPerSec + 1, 3600 * TicksPerSec - 1, 6000 * TicksPerSec }

Segment == [start : Starts, text : Texts]

RECURSIVE SeqsUpTo(_, _)
SeqsUpTo(S, n) ==
    IF n = 0 THEN {<<>>}
    ELSE LET shorter == SeqsUpTo(S, n - 1)
         IN  shorter \cup {Append(q, x) : q \in shorter, x \in S}

\* A dict: none is Python's None, keys the keys it has.
Result(ks, segs) == [none |-> FALSE, keys |-> ks, segments |-> segs]

None == [none |-> TRUE, keys |-> {}, segments |-> <<>>]

\* The arguments create_markdown is applied to on its own.
FormatInputs ==
    {Result({"text", "segments"}, q) : q \in SeqsUpTo(Segment, MaxSegs)}
    \cup {Result({"text"}, <<>>)}

\* What model.transcribe returns in the pipeline: a dict with text, segments
\* and language, the segments possibly none.
PipelineSegments ==
    { <<>>,
      <<[start |-> TicksPerSec + 1, text |-> <<" ", "h", "i">>]>> }

PipelineResults ==
    {Result({"text", "segments", "language"}, q) : q \in PipelineSegments}

\* not transcription
Falsy(t) == t.none \/ t.keys = {}

Absent == [exists |-> FALSE, data |-> <<>>]

File(d) == [exists |-> TRUE, data |-> d]

OldDoc == File(<<"an earlier document">>)

OutPaths == {PathStem(a) \o Suffix : a \in AudioFiles}

LogRec(level, msg) == [level |-> level, msg |-> msg]

----------------------------------------------------------------------------
(* The pipeline: main() called up to MaxRuns times in one process. *)

Init ==
    /\ pc = "start"
    /\ runs = 0
    /\ audio_file = <<>>
    /\ markdown_file = <<>>
    /\ inputExists = FALSE
    /\ transcription = None
    /\ markdown_content = <<>>
    /\ fs \in [OutPaths -> {Absent, OldDoc}]
    /\ fs0 = fs
    /\ log = <<>>
    /\ stages = <<>>
    /\ engine = "not_called"
    /\ loaded = 0
    /\ modelInput = <<>>
    /\ persisted = FALSE
    /\ clock = 0
    /\ written = {}
    /\ saves = [a \in AudioFiles |-> 0]
    /\ seconds = 0
    /\ timestamp = <<>>

pureVars == <<seconds, timestamp>>

\* main without the check that the input exists: it goes on to transcribe.
MainStartSkipsValidation ==
    /\ pc \in {"start", "done"}
    /\ runs < MaxRuns
    /\ runs' = runs + 1
    /\ \E a \in AudioFiles, e \in BOOLEAN, now \in {clock, clock + 1} :
          /\ now <= MaxClock
          /\ clock' = now
          /\ audio_file' = a
          /\ markdown_file' = PathStem(a) \o Suffix
          /\ inputExists' = e
    /\ log' = <<>>
    /\ pc' = "transcribe"
    /\ stages' = <<"validate">>
    /\ fs0' = fs
    /\ transcription' = None
    /\ markdown_content' = <<>>
    /\ engine' = "not_called"
    /\ modelInput' = <<>>
    /\ persisted' = FALSE
    /\ UNCHANGED <<fs, loaded, written, saves, pureVars>>

\* main, lines 119-128: the paths, and the check that the input exists.
MainStart ==
    /\ pc \in {"start", "done"}
    /\ runs < MaxRuns
    /\ runs' = runs + 1
    /\ \E a \in AudioFiles, e \in BOOLEAN, now \in {clock, clock + 1} :
          /\ now <= MaxClock
          /\ clock' = now
          /\ audio_file' = a
          /\ markdown_file' = PathStem(a) \o Suffix
          /\ inputExists' = e
          /\ IF e
             THEN /\ log' = <<>>
                  /\ pc' = "transcribe"
             ELSE /\ log' = <<LogRec("ERROR", "Input file not found")>>
                  /\ pc' = "done"
    /\ stages' = <<"validate">>
    /\ fs0' = fs
    /\ transcription' = None
    /\ markdown_content' = <<>>
    /\ engine' = "not_called"
    /\ modelInput' = <<>>
    /\ persisted' = FALSE
    /\ UNCHANGED <<fs, loaded, written, saves, pureVars>>

\* transcribe_audio whose except branch returns None without logging.
TranscribeAudioSilent ==
    /\ pc = "transcribe"
    /\ \/ /\ engine' = "load_raised"
          /\ log' = log \o <<LogRec("INFO", "Loading Whisper model...")>>
          /\ stages' = stages \o <<"load_model">>
          /\ transcription' = None
          /\ pc' = "done"
          /\ UNCHANGED <<loaded, modelInput>>
       \/ /\ engine' = "transcribe_raised"
          /\ log' = log \o <<LogRec("INFO", "Loading Whisper model..."),
                             LogRec("INFO", "Transcribing audio...")>>
          /\ stages' = stages \o <<"load_model", "model_transcribe">>
          /\ loaded' = loaded + 1
          /\ modelInput' = audio_file
          /\ transcription' = None
          /\ pc' = "done"
       \/ \E r \in PipelineResults :
          /\ engine' = "returned"
          /\ log' = log \o <<LogRec("INFO", "Loading Whisper model..."),
                             LogRec("INFO", "Transcribing audio...")>>
          /\ stages' = stages \o <<"load_model", "model_transcribe">>
          /\ loaded' = loaded + 1
          /\ modelInput' = audio_file
          /\ transcription' = r
          /\ pc' = IF Falsy(r) THEN "done" ELSE "format"
    /\ UNCHANGED <<runs, audio_file, markdown_file, inputExists, markdown_content,
                   fs, fs0, persisted, clock, written, saves, pureVars>>

\* transcribe_audio that carries on to the markdown after a failure.
TranscribeAudioCarriesOn ==
    /\ pc = "transcribe"
    /\ \/ /\ engine' = "load_raised"
          /\ log' = log \o <<LogRec("INFO", "Loading Whisper model..."),
                             LogRec("ERROR", "Error during transcription")>>
          /\ stages' = stages \o <<"load_model">>
          /\ transcription' = Result({}, <<>>)
          /\ pc' = "format"
          /\ UNCHANGED <<loaded, modelInput>>
       \/ \E r \in PipelineResults :
          /\ engine' = "returned"
          /\ log' = log \o <<LogRec("INFO", "Loading Whisper model..."),
                             LogRec("INFO", "Transcribing audio...")>>
          /\ stages' = stages \o <<"load_model", "model_transcribe">>
          /\ loaded' = loaded + 1
          /\ modelInput' = audio_file
          /\ transcription' = r
          /\ pc' = "format"
    /\ UNCHANGED <<runs, audio_file, markdown_file, inputExists, markdown_content,
                   fs, fs0, persisted, clock, written, saves, pureVars>>

\* transcribe_audio, lines 51-65, and main's test of what it returned, lines
\* 131-133.  whisper.load_model raises, or returns a new model instance whose
\* transcribe raises or returns a result; the path handed over is main's
\* audio_file.
TranscribeAudio ==
    /\ pc = "transcribe"
    /\ \/ /\ engine' = "load_raised"
          /\ log' = log \o <<LogRec("INFO", "Loading Whisper model..."),
                             LogRec("ERROR", "Error during transcription")>>
          /\ stages' = stages \o <<"load_model">>
          /\ transcription' = None
          /\ pc' = "done"
          /\ UNCHANGED <<loaded, modelInput>>
       \/ /\ engine' = "transcribe_raised"
          /\ log' = log \o <<LogRec("INFO", "Loading Whisper model..."),
                             LogRec("INFO", "Transcribing audio..."),
                             LogRec("ERROR", "Error during transcription")>>
          /\ stages' = stages \o <<"load_model", "model_transcribe">>
          /\ loaded' = loaded + 1
          /\ modelInput' = audio_file
          /\ transcription' = None
          /\ pc' = "done"
       \/ \E r \in PipelineResults :
          /\ engine' = "returned"
          /\ log' = log \o <<LogRec("INFO", "Loading Whisper model..."),
                             LogRec("INFO", "Transcribing audio...")>>
          /\ stages' = stages \o <<"load_model", "model_transcribe">>
          /\ loaded' = loaded + 1
          /\ modelInput' = audio_file
          /\ transcription' = r
          /\ pc' = IF Falsy(r) THEN "done" ELSE "format"
    /\ UNCHANGED <<runs, audio_file, markdown_file, inputExists, markdown_content,
                   fs, fs0, persisted, clock, written, saves, pureVars>>

\* main, line 137.
FormatMarkdown ==
    /\ pc = "format"
    /\ markdown_content' = create_markdown(transcription, audio_file, clock)
    /\ stages' = stages \o <<"format">>
    /\ pc' = "open"
    /\ UNCHANGED <<runs, audio_file, markdown_file, inputExists, transcription,
                   fs, fs0, log, engine, loaded, modelInput, persisted, clock,
                   written, saves, pureVars>>

\* main, line 138 and the except branch: open(markdown_file, 'w') raises and
\* leaves the path alone, or creates the file or truncates it to nothing.
OpenOutput ==
    /\ pc = "open"
    /\ stages' = stages \o <<"open">>
    /\ \/ /\ log' = log \o <<LogRec("ERROR", "Error saving markdown")>>
          /\ pc' = "done"
          /\ UNCHANGED fs
       \/ /\ fs' = [fs EXCEPT ![markdown_file] = File(<<>>)]
          /\ pc' = "write"
          /\ UNCHANGED log
    /\ UNCHANGED <<runs, audio_file, markdown_file, inputExists, transcription,
                   markdown_content, fs0, engine, loaded, modelInput, persisted,
                   clock, written, saves, pureVars>>

\* the file opened for appending: what it held stays in front.
WriteOutputAppends ==
    /\ pc = "write"
    /\ stages' = stages \o <<"write">>
    /\ fs' = [fs EXCEPT ![markdown_file] =
                 File(fs0[markdown_file].data \o markdown_content)]
    /\ log' = log \o <<LogRec("INFO", "Transcription saved to")>>
    /\ persisted' = TRUE
    /\ written' = written \cup {<<audio_file, markdown_file>>}
    /\ saves' = [saves EXCEPT ![audio_file] = @ + 1]
    /\ pc' = "done"
    /\ UNCHANGED <<runs, audio_file, markdown_file, inputExists, transcription,
                   markdown_content, fs0, engine, loaded, modelInput, clock,
                   pureVars>>

\* main, lines 139-143: f.write and the close of the with block.  The
\* content reaches the file whole, or the write or the flush raises with
\* some proper prefix of it in the file.
WriteOutput ==
    /\ pc = "write"
    /\ stages' = stages \o <<"write">>
    /\ \/ /\ fs' = [fs EXCEPT ![markdown_file] = File(markdown_content)]
          /\ log' = log \o <<LogRec("INFO", "Transcription saved to")>>
          /\ persisted' = TRUE
          /\ written' = written \cup {<<audio_file, markdown_file>>}
          /\ saves' = [saves EXCEPT ![audio_file] = @ + 1]
       \/ /\ \E k \in 0..(Len(markdown_content) - 1) :
                fs' = [fs EXCEPT ![markdown_file] =
                          File(SubSeq(markdown_content, 1, k))]
          /\ log' = log \o <<LogRec("ERROR", "Error saving markdown")>>
          /\ UNCHANGED <<persisted, written, saves>>
    /\ pc' = "done"
    /\ UNCHANGED <<runs, audio_file, markdown_file, inputExists, transcription,
                   markdown_content, fs0, engine, loaded, modelInput, clock,
                   pureVars>>

Next ==
    \/ MainStart
    \/ TranscribeAudio
    \/ FormatMarkdown
    \/ OpenOutput
    \/ WriteOutput

Spec == Init /\ [][Next]_vars

----------------------------------------------------------------------------
(* create_markdown applied on its own to every input of FormatInputs. *)

InitFormat ==
    /\ pc = "format_call"
    /\ runs = 0
    /\ audio_file \in AudioFiles
    /\ markdown_file = <<>>
    /\ inputExists = TRUE
    /\ transcription \in FormatInputs
    /\ markdown_content = <<>>
    /\ fs = [p \in OutPaths |-> Absent]
    /\ fs0 = fs
    /\ log = <<>>
    /\ stages = <<>>
    /\ engine = "returned"
    /\ loaded = 0
    /\ modelInput = <<>>
    /\ persisted = FALSE
    /\ clock = 0
    /\ written = {}
    /\ saves = [a \in AudioFiles |-> 0]
    /\ seconds = 0
    /\ timestamp = <<>>

CreateMarkdownCall ==
    /\ pc = "format_call"
    /\ markdown_content' = create_markdown(transcription, audio_file, clock)
    /\ pc' = "format_returned"
    /\ UNCHANGED <<runs, audio_file, markdown_file, inputExists, transcription,
                   fs, fs0, log, stages, engine, loaded, modelInput, persisted,
                   clock, written, saves, pureVars>>

NextFormat == CreateMarkdownCall

SpecFormat == InitFormat /\ [][NextFormat]_vars

----------------------------------------------------------------------------
(* format_timestamp applied on its own to every time up to MaxSeconds. *)

InitTimestamp ==
    /\ pc = "timestamp_call"
    /\ runs = 0
    /\ audio_file = <<>>
    /\ markdown_file = <<>>
    /\ inputExists = FALSE
    /\ transcription = None
    /\ markdown_content = <<>>
    /\ fs = [p \in OutPaths |-> Absent]
    /\ fs0 = fs
    /\ log = <<>>
    /\ stages = <<>>
    /\ engine = "not_called"
    /\ loaded = 0
    /\ modelInput = <<>>
    /\ persisted = FALSE
    /\ clock = 0
    /\ written = {}
    /\ saves = [a \in AudioFiles |-> 0]
    /\ seconds \in 0..(MaxSeconds * TicksPerSec)
    /\ timestamp = <<>>

FormatTimestampCall ==
    /\ pc = "timestamp_call"
    /\ timestamp' = format_timestamp(seconds)
    /\ pc' = "timestamp_returned"
    /\ UNCHANGED <<runs, audio_file, markdown_file, inputExists, transcription,
                   markdown_content, fs, fs0, log, stages, engine, loaded,
                   modelInput, persisted, clock, written, saves, seconds>>

NextTimestamp == FormatTimestampCall

SpecTimestamp == InitTimestamp /\ [][NextTimestamp]_vars

----------------------------------------------------------------------------
(* What the claims are stated with. *)

HasLog(level, msg) == \E i \in 1..Len(log) : log[i] = LogRec(level, msg)

HasLevel(level) == \E i \in 1..Len(log) : log[i].level = level

Before(a, b) ==
    \E i, j \in 1..Len(stages) : i < j /\ stages[i] = a /\ stages[j] = b

Finished == pc = "done"

\* The value of a decimal digit.
DigitValue(c) == CHOOSE d \in 0..9 : Digits[d + 1] = c

IsDigit(c) == \E d \in 0..9 : Digits[d + 1] = c

\* A number below 100 written with exactly two digits, above with its own.
TwoDigits(n) ==
    IF n < 100 THEN <<Digits[(n \div 10) + 1], Digits[(n % 10) + 1]>>
    ELSE Decimal(n)

\* The text between its first and its last character that is not whitespace.
Trimmed(text) ==
    LET N == {i \in 1..Len(text) : text[i] \notin Whitespace}
    IN  IF N = {} THEN <<>>
        ELSE SubSeq(text, CHOOSE i \in N : \A j \in N : i <= j,
                          CHOOSE i \in N : \A j \in N : j <= i)

\* [MM:SS] text and a blank line, MM = floor(start / 60), SS = floor(start) mod 60.
ExpectedEntry(segment) ==
    LET whole == segment.start \div TicksPerSec
    IN  <<"[">> \o TwoDigits(whole \div 60) \o <<":">> \o TwoDigits(whole % 60)
        \o <<"]", " ">> \o Trimmed(segment.text) \o <<"\n", "\n">>

RECURSIVE ExpectedBody(_, _)
ExpectedBody(segments, i) ==
    IF i > Len(segments) THEN <<>>
    ELSE ExpectedEntry(segments[i]) \o ExpectedBody(segments, i + 1)

\* What follows the document's Segments heading.
BodyOf(doc) ==
    LET H == {i \in 1..Len(doc) : doc[i] = "\n\n## Segments\n"}
    IN  IF H = {} THEN doc
        ELSE SubSeq(doc, (CHOOSE i \in H : \A j \in H : i <= j) + 1, Len(doc))

\* A document that starts with the header block: the title and source line,
\* the date line, the Segments heading, in this order, each once.
HasHeader(doc) ==
    /\ doc # <<>>
    /\ doc[1] = "# Audio Transcription\n\n## File Information\n- **Source File:** "
    /\ \E i, j \in 2..Len(doc) :
          /\ i < j
          /\ doc[i] = "\n- **Transcription Date:** "
          /\ doc[j] = "\n\n## Segments\n"
          /\ \A k \in 1..Len(doc) :
                k \notin {1, i, j} => doc[k] \notin {doc[1], doc[i], doc[j]}

\* out is the base name of the path in (its last component, without the
\* directories before it and without its last extension) followed by Suffix.
IsBaseNamePlusSuffix(out, in) ==
    \E i, j \in 1..Len(in) :
       /\ i <= j
       /\ out = SubSeq(in, i, j) \o Suffix
       /\ i = 1 \/ in[i - 1] = "/"
       /\ \A k \in i..Len(in) : in[k] # "/"
       /\ \/ j = Len(in) /\ \A k \in (i + 1)..Len(in) : in[k] # "."
          \/ /\ j + 1 < Len(in)
             /\ in[j + 1] = "."
             /\ \A k \in (j + 2)..Len(in) : in[k] # "."

----------------------------------------------------------------------------
(* The claims. *)

\* C1: a run whose input path does not exist ends having reported the input
\* as not found (its one log record, at error level) and having done nothing
\* else: no model load, no model call, no formatting, no open or write, and
\* every output file as it was when the run started.
C1_MissingInputStopsRun ==
    (Finished /\ ~inputExists) =>
        /\ log = <<LogRec("ERROR", "Input file not found")>>
        /\ stages = <<"validate">>
        /\ engine = "not_called"
        /\ modelInput = <<>>
        /\ ~persisted
        /\ fs = fs0

C1_Witness ==
    /\ Finished
    /\ ~inputExists
    /\ runs = 2
    /\ loaded = 1
    /\ fs[markdown_file] = OldDoc

C4_NoPartialDocument ==
    (Finished /\ Before("validate", "open") /\ ~persisted) =>
        \/ fs[markdown_file] = fs0[markdown_file]
        \/ fs[markdown_file] = File(markdown_content)

\* C5: in one process the model (there is one size, base) is loaded at most
\* once, however many times transcribe_audio is called.
C5_ModelLoadedAtMostOnce == loaded <= 1

\* C6: a run that persisted its document went through validate, convert,
\* transcribe, format and persist in this order, and the model was handed
\* the converted audio, not the original input path.
C6_StagesInOrderOnDecodedAudio ==
    (Finished /\ persisted) =>
        /\ Before("validate", "convert")
        /\ Before("convert", "model_transcribe")
        /\ Before("model_transcribe", "format")
        /\ Before("format", "write")
        /\ modelInput # audio_file

\* C7: the body create_markdown gives for a result with segments is, for
\* each segment in order, [MM:SS], a space, the trimmed text and a blank
\* line, with MM = floor(start / 60) and SS = floor(start) mod 60 in two
\* digits, and nothing else: no segment dropped, repeated or moved.
C7_BodyIsOneEntryPerSegment ==
    (pc = "format_returned" /\ "segments" \in transcription.keys) =>
        BodyOf(markdown_content) = ExpectedBody(transcription.segments, 1)

C7_Witness ==
    /\ pc = "format_returned"
    /\ transcription.segments =
          <<[start |-> 0, text |-> Hello],
            [start |-> TicksPerSec + 1, text |-> World]>>
    /\ BodyOf(markdown_content) =
          <<"[", "0", "0", ":", "0", "0", "]", " ", "h", "e", "l", "l", "o", "\n", "\n",
            "[", "0", "0", ":", "0", "1", "]", " ", "w", "o", "r", "l", "d", "\n", "\n">>

\* C8: a run whose result has an empty segment sequence persists a document
\* of the header and an empty body, and logs a warning for the empty result.
C8_EmptySegmentsWarned ==
    (Finished /\ persisted /\ "segments" \in transcription.keys
     /\ transcription.segments = <<>>) =>
        /\ HasHeader(fs[markdown_file].data)
        /\ BodyOf(fs[markdown_file].data) = <<>>
        /\ HasLevel("WARNING")

\* C9: for a whole number s of seconds in 0..3599, format_timestamp(s) is
\* two digits, a colon, two digits, the second pair at most 59, and the
\* first pair times 60 plus the second pair is s.
C9_TimestampRoundTrip ==
    (pc = "timestamp_returned" /\ seconds % TicksPerSec = 0
     /\ seconds \div TicksPerSec <= 3599) =>
        /\ Len(timestamp) = 5
        /\ timestamp[3] = ":"
        /\ \A i \in {1, 2, 4, 5} : IsDigit(timestamp[i])
        /\ 10 * DigitValue(timestamp[4]) + DigitValue(timestamp[5]) <= 59
        /\ (10 * DigitValue(timestamp[1]) + DigitValue(timestamp[2])) * 60
           + 10 * DigitValue(timestamp[4]) + DigitValue(timestamp[5])
           = seconds \div TicksPerSec

C9_Witness ==
    /\ pc = "timestamp_returned"
    /\ seconds = 3599 * TicksPerSec
    /\ timestamp = <<"5", "9", ":", "5", "9">>

\* C10: the output path is the input's base name plus the suffix, the same
\* for every run on that input, and a run that persisted leaves at that path
\* exactly its own complete document, header then body, with nothing of
\* what the path held before.
C10_OverwriteAtDerivedPath ==
    (Finished /\ persisted) =>
        /\ IsBaseNamePlusSuffix(markdown_file, audio_file)
        /\ \A w \in written : w[1] = audio_file => w[2] = markdown_file
        /\ fs[markdown_file] = File(markdown_content)
        /\ HasHeader(markdown_content)
        /\ BodyOf(markdown_content) = ExpectedBody(transcription.segments, 1)
        /\ \A p \in OutPaths : p # markdown_file => fs[p] = fs0[p]

C10_Witness ==
    /\ Finished
    /\ persisted
    /\ saves[audio_file] = 2
    /\ fs0[markdown_file].exists
    /\ HasHeader(fs0[markdown_file].data)
    /\ fs0[markdown_file].data # markdown_content
    /\ fs[markdown_file] = File(markdown_content)

====
